---- MODULE Spec2Model ----
(***************************************************************************)
(* A model of QAVIFHandler (src/src/imageformats/avif.cpp), the AVIF       *)
(* image-format handler of kimageformats.                                  *)
(*                                                                         *)
(* The handler's data members are the variables m_*.  The device and the   *)
(* libavif decoder are the environment: `file' is the byte stream the      *)
(* device holds, described by what libavif reports for it (signature,      *)
(* parse result and, per frame, the fields of avifImage the handler        *)
(* reads).  Every member function is an operator from a handler state to a *)
(* handler state and a return value, so that a function calling another    *)
(* (read -> jumpToNextImage -> decode_one_frame -> ensureParsed) is the    *)
(* composition the code performs; every public call is one action.         *)
(***************************************************************************)
EXTENDS Integers, Sequences, FiniteSets, TLC

VARIABLES
    file,                       \* the stream behind device(), as libavif sees it
    m_parseState,               \* ParseAvifNotParsed / ParseAvifSuccess / ParseAvifError
    m_quality,
    m_container_width,
    m_container_height,
    m_decoder,                  \* avifDecoder *: live or null, imageCount, imageIndex
    m_current_image,            \* QImage
    m_must_jump_to_next_image,
    reads,                      \* history: device()->readAll() calls so far (saturating)
    parses,                     \* history: avifDecoderParse calls so far (saturating)
    allocated,                  \* history: a pixel buffer was ever allocated
    decoders,                   \* history: avifDecoderCreate / avifDecoderDestroy calls so far
    call,                       \* the last public call: operation, argument, result
    encoded                     \* the last write: what it decided, did and returned

vars == <<file, m_parseState, m_quality, m_container_width, m_container_height,
          m_decoder, m_current_image, m_must_jump_to_next_image,
          reads, parses, allocated, decoders, call, encoded>>

-----------------------------------------------------------------------------
(* Bounds of the model *)

\* the longest animation the device may hold
MaxFrames == 2

\* the history counters saturate here
MaxCount == 2

(* Program constants *)

\* the largest width or height accepted (avif.cpp:136, avif.cpp:424)
MaxDimension == 32768

\* QAVIFHandler::QAVIFHandler: m_quality(52); also the value a negative quality resets to
DefaultQuality == 52

\* the largest quality
MaxQuality == 100

\* AVIF_QUANTIZER_WORST_QUALITY of avif.h
AVIF_QUANTIZER_WORST_QUALITY == 63

-----------------------------------------------------------------------------
(* The environment: what the device holds *)

\* a second width/height, different from MaxDimension, for frames whose size
\* drifts in a sequence
SmallDimension == 2

NoClap == [flag |-> FALSE, widthN |-> 0, widthD |-> 0, heightN |-> 0, heightD |-> 0,
           horizOffD |-> 0, vertOffD |-> 0]

\* AVIF_TRANSFORM_CLAP with a usable crop box (2/1 x 1/1) and with zero denominators
Claps == {NoClap,
          [flag |-> TRUE, widthN |-> 2, widthD |-> 1, heightN |-> 1, heightD |-> 1,
           horizOffD |-> 1, vertOffD |-> 1],
          [flag |-> TRUE, widthN |-> 5, widthD |-> 2, heightN |-> 9, heightD |-> 1,
           horizOffD |-> 1, vertOffD |-> 1],
          [flag |-> TRUE, widthN |-> 2, widthD |-> 0, heightN |-> 1, heightD |-> 1,
           horizOffD |-> 1, vertOffD |-> 1]}

\* irot.angle when AVIF_TRANSFORM_IROT is set, -1 when it is not
Irots == {-1, 1, 2, 3}

\* imir.mode (imir.axis) when AVIF_TRANSFORM_IMIR is set, -1 when it is not
Imirs == {-1, 0, 1}

\* One frame of the stream: what avifDecoderNextImage / avifDecoderNthImage
\* leave in decoder->image, and whether the calls made on it succeed.
\*   status "ok"       every call succeeds
\*          "nodecode" avifDecoderNextImage / avifDecoderNthImage fail on it
\*          "nomem"    the QImage for it cannot be allocated (result.isNull())
\*          "noconv"   avifImageYUVToRGB fails on it
\*   icc    "none"     image->icc is empty
\*          "valid"    QColorSpace::fromIccProfile accepts the profile
\*          "rejected" QColorSpace::fromIccProfile returns an invalid colour space
\*   colorPrimaries, transferCharacteristics: the CICP codes of the image
\*   duration: decoder->imageTiming.duration at the frame, in milliseconds
Frame(w, h, st, d, a, yuv, clap, irot, imir) ==
    [width |-> w, height |-> h, status |-> st, depth |-> d, alphaPlane |-> a,
     yuvFormat |-> yuv, clap |-> clap, irot |-> irot, imir |-> imir,
     icc |-> "none", colorPrimaries |-> 1, transferCharacteristics |-> 13,
     duration |-> 40]

PlainFrame(w, h, st) == Frame(w, h, st, 8, FALSE, "YUV420", NoClap, -1, -1)

\* the frames an animation is drawn from: sizes on both sides of every limit
\* the handler tests, and every way a frame can fail
SequenceFrames ==
    {PlainFrame(MaxDimension, MaxDimension, st) : st \in {"ok", "nodecode", "noconv"}}
    \cup {PlainFrame(d[1], d[2], "ok") :
            d \in {<<MaxDimension, SmallDimension>>, <<SmallDimension, MaxDimension>>,
                   <<MaxDimension + 1, SmallDimension>>, <<SmallDimension, MaxDimension + 1>>,
                   <<0, SmallDimension>>, <<SmallDimension, 0>>}}
    \cup {[PlainFrame(MaxDimension, MaxDimension, "ok") EXCEPT !.duration = 0]}

\* still images of every sample layout and transform the decoder can report
StillFrames ==
    {Frame(4, SmallDimension, "ok", d, a, yuv, clap, irot, imir) :
        d \in {8, 10, 12}, a \in BOOLEAN, yuv \in {"YUV400", "YUV420", "YUV444"},
        clap \in Claps, irot \in Irots, imir \in Imirs}
    \cup {PlainFrame(SmallDimension, SmallDimension, "nomem")}

\* the CICP codes of the frames: the ones the handler knows (primaries 0, 1, 2,
\* 12; transfer 0, 2, 4, 5, 8, 13) and others (BT.2020, PQ)
PrimariesCodes == {0, 1, 2, 9, 12}

TransferCodes == {0, 2, 4, 5, 8, 13, 16}

\* still images of every colour description: with and without a profile, in
\* every pair of codes
ColorFrames ==
    {[PlainFrame(4, SmallDimension, "ok") EXCEPT
         !.icc = icc, !.colorPrimaries = pr, !.transferCharacteristics = trc] :
        icc \in {"none", "valid", "rejected"}, pr \in PrimariesCodes, trc \in TransferCodes}

SeqsUpTo(S, n) == UNION {[1..k -> S] : k \in 0..n}

\* header: "ok", or the first call that rejects the stream
\*   "nosig"  avifPeekCompatibleFileType is false
\*   "noio"   avifDecoderSetIOMemory fails
\*   "noparse" avifDecoderParse fails
Files ==
    {[header |-> "ok", frames |-> fs] : fs \in SeqsUpTo(SequenceFrames, MaxFrames)}
    \cup {[header |-> "ok", frames |-> <<f>>] : f \in StillFrames \cup ColorFrames}
    \cup {[header |-> hd, frames |-> <<>>] : hd \in {"nosig", "noio", "noparse"}}

-----------------------------------------------------------------------------
(* The handler state *)

NullDecoder == [live |-> FALSE, imageCount |-> 0, imageIndex |-> -1]

This ==
    [m_parseState |-> m_parseState, m_quality |-> m_quality,
     m_container_width |-> m_container_width, m_container_height |-> m_container_height,
     m_decoder |-> m_decoder, m_current_image |-> m_current_image,
     m_must_jump_to_next_image |-> m_must_jump_to_next_image,
     reads |-> reads, parses |-> parses, allocated |-> allocated,
     decoders |-> decoders,
     log |-> <<>>, advance |-> "none", landed |-> -1, deref |-> "none"]

\* a function's outcome: the handler after it, and what it returns
Ret(s, v) == [s |-> s, ret |-> v]

Logged(s, what) == [s EXCEPT !.log = Append(@, what)]

Count(n) == IF n < MaxCount THEN n + 1 ELSE n

\* m_decoder-> : the pointer is dereferenced, "null" once it was when null
Dereferenced(s) ==
    [s EXCEPT !.deref = IF s.m_decoder.live /\ @ # "null" THEN "live" ELSE "null"]

-----------------------------------------------------------------------------
(* libavif, as the handler calls it *)

\* decoder->image: the frame the decoder is positioned at
Image(s) == file.frames[s.m_decoder.imageIndex + 1]

\* avifDecoderNextImage: the frame after imageIndex, when there is one and it
\* decodes; on failure the decoder stays where it was
avifDecoderNextImage(s) ==
    LET next == s.m_decoder.imageIndex + 1
        ok == /\ next < s.m_decoder.imageCount
              /\ file.frames[next + 1].status # "nodecode"
        s1 == Logged(s, "avifDecoderNextImage")
    IN  IF ok THEN Ret([s1 EXCEPT !.m_decoder.imageIndex = next], TRUE)
        ELSE Ret(s1, FALSE)

\* avifDecoderReset: back to before the first frame
avifDecoderReset(s) ==
    [Logged(s, "avifDecoderReset") EXCEPT !.m_decoder.imageIndex = -1]

\* avifDecoderNthImage: the frame of that index, when it decodes
avifDecoderNthImage(s, n) ==
    LET ok == /\ n >= 0
              /\ n < s.m_decoder.imageCount
              /\ file.frames[n + 1].status # "nodecode"
        s1 == Logged(s, "avifDecoderNthImage")
    IN  IF ok THEN Ret([s1 EXCEPT !.m_decoder.imageIndex = n], TRUE)
        ELSE Ret(s1, FALSE)

\* avifDecoderDestroy(m_decoder); m_decoder = nullptr
DestroyDecoder(s) ==
    [Logged(s, "avifDecoderDestroy") EXCEPT !.m_decoder = NullDecoder,
                                            !.decoders.destroyed = Count(@)]

-----------------------------------------------------------------------------
(* QImage, as the handler calls it *)

\* (int)(n / d + 0.5) for n >= 0, d > 0
RoundDiv(n, d) == (2 * n + d) \div (2 * d)

Min(a, b) == IF a < b THEN a ELSE b

\* QColorSpace, as decode_one_frame builds it.  profile: "embedded" when it was
\* made from the ICC profile of the stream, "built" when Qt made it from
\* primaries and a transfer function, "none" for QColorSpace(); points: the
\* code whose chromaticities custom primaries were given; gamma in hundredths
QColorSpace(primaries, points, trc, gamma) ==
    [valid |-> TRUE, profile |-> "built", primaries |-> primaries, points |-> points,
     transferFunction |-> trc, gamma |-> gamma]

\* QColorSpace(): invalid
InvalidColorSpace ==
    [valid |-> FALSE, profile |-> "none", primaries |-> "Custom", points |-> 0,
     transferFunction |-> "Custom", gamma |-> 0]

\* QColorSpace::fromIccProfile: the colour space of the profile, or an invalid
\* one that still holds the profile
fromIccProfile(icc) ==
    IF icc = "valid"
    THEN [InvalidColorSpace EXCEPT !.valid = TRUE, !.profile = "embedded"]
    ELSE [InvalidColorSpace EXCEPT !.profile = "embedded"]

\* QImage result(width, height, format)
NewImage(w, h, fmt, idx) ==
    [null |-> FALSE, format |-> fmt, width |-> w, height |-> h, frame |-> idx,
     rotation |-> 0, mirrored |-> "no", colorSpace |-> InvalidColorSpace]

\* QImage::setColorSpace
setColorSpace(img, colorspace) == [img EXCEPT !.colorSpace = colorspace]

\* QImage(): the null image
NullImage == [NewImage(0, 0, "Format_Invalid", -1) EXCEPT !.null = TRUE]

\* QImage::convertToFormat
convertToFormat(img, fmt) == [img EXCEPT !.format = fmt]

-----------------------------------------------------------------------------
(* QAVIFHandler::decode_one_frame, in its steps *)

\* the format the pixel buffer is allocated in
AllocFormat(depth, loadalpha) ==
    IF depth > 8
    THEN IF loadalpha THEN "Format_RGBA64" ELSE "Format_RGBX64"
    ELSE IF loadalpha THEN "Format_RGBA8888" ELSE "Format_RGBX8888"

\* resultformat: the format of the frame handed to the host
ResultFormat(depth, loadalpha, yuvFormat) ==
    IF depth > 8
    THEN IF ~loadalpha /\ yuvFormat = "YUV400" THEN "Format_Grayscale16"
         ELSE AllocFormat(depth, loadalpha)
    ELSE IF loadalpha THEN "Format_ARGB32"
         ELSE IF yuvFormat = "YUV400" THEN "Format_Grayscale8"
              ELSE "Format_RGB32"

\* q_trc: the transfer function for image->transferCharacteristics
TransferFunction(code) ==
    CASE code \in {4, 5} -> "Gamma"
      [] code = 8 -> "Linear"
      [] code \in {0, 2, 13} -> "SRgb"
      [] OTHER -> "SRgb"

\* q_trc_gamma, in hundredths
TransferGamma(code) ==
    CASE code = 4 -> 220
      [] code = 5 -> 280
      [] OTHER -> 0

\* the colour space made from the CICP codes; QColorSpace() when q_trc is Custom
CicpColorSpace(primaries, q_trc, q_trc_gamma) ==
    IF q_trc # "Custom"
    THEN CASE primaries \in {0, 1, 2} -> QColorSpace("SRgb", 1, q_trc, q_trc_gamma)
           [] primaries = 12 -> QColorSpace("DciP3D65", 12, q_trc, q_trc_gamma)
           [] OTHER -> QColorSpace("Custom", primaries, q_trc, q_trc_gamma)
    ELSE InvalidColorSpace

\* FrameColorSpace with the codes looked at before the profile
FrameColorSpace_codesFirst(img) ==
    IF img.icc = "rejected" THEN fromIccProfile(img.icc)
    ELSE CicpColorSpace(img.colorPrimaries,
                        TransferFunction(img.transferCharacteristics),
                        TransferGamma(img.transferCharacteristics))

\* colorspace: what result.setColorSpace is called with
FrameColorSpace(img) ==
    IF img.icc # "none" THEN fromIccProfile(img.icc)
    ELSE CicpColorSpace(img.colorPrimaries,
                        TransferFunction(img.transferCharacteristics),
                        TransferGamma(img.transferCharacteristics))

\* AVIF_TRANSFORM_CLAP: crop to the clean aperture, unless a denominator is zero
Crop(result, img) ==
    LET c == img.clap IN
    IF c.flag /\ c.widthD > 0 /\ c.heightD > 0 /\ c.horizOffD > 0 /\ c.vertOffD > 0
    THEN LET new_width == Min(RoundDiv(c.widthN, c.widthD), result.width)
             new_height == Min(RoundDiv(c.heightN, c.heightD), result.height)
         IN  IF new_width > 0 /\ new_height > 0
             THEN [result EXCEPT !.width = new_width, !.height = new_height]
             ELSE result
    ELSE result

\* AVIF_TRANSFORM_IROT: rotate by 90, 180 or 270 degrees
Rotate(result, img) ==
    IF img.irot \in {1, 3}
    THEN [result EXCEPT !.width = result.height, !.height = result.width,
                        !.rotation = IF img.irot = 1 THEN 270 ELSE 90]
    ELSE IF img.irot = 2 THEN [result EXCEPT !.rotation = 180]
    ELSE result

\* AVIF_TRANSFORM_IMIR: mirror top-to-bottom or left-to-right
Mirror(result, img) ==
    IF img.imir = 0 THEN [result EXCEPT !.mirrored = "vertical"]
    ELSE IF img.imir = 1 THEN [result EXCEPT !.mirrored = "horizontal"]
    ELSE result

\* StoreFrame without the conversion
StoreFrame_unconverted(result, resultformat) == result

\* m_current_image = result, converted when its format is not resultformat
StoreFrame(result, resultformat) ==
    IF resultformat = result.format THEN result
    ELSE convertToFormat(result, resultformat)

-----------------------------------------------------------------------------
(* Parsing and decoding.  Each function is written as the chain of its steps, *)
(* every step an operator on the handler state the step before it left.       *)

\* m_parseState = ParseAvifError; return false
Failed(s) == Ret([s EXCEPT !.m_parseState = "Error"], FALSE)

RECURSIVE ensureParsed(_)

\* decode_one_frame, from the conversion on: img is decoder->image, result the
\* allocated buffer
ConvertFrame(s, img, result) ==
    IF img.status = "noconv" THEN Ret(s, FALSE)
    ELSE Ret([s EXCEPT
                 !.m_current_image =
                     StoreFrame(Mirror(Rotate(Crop(result, img), img), img),
                                ResultFormat(img.depth, img.alphaPlane, img.yuvFormat)),
                 !.m_must_jump_to_next_image = FALSE],
             TRUE)

\* decode_one_frame, from the allocation of the buffer on
AllocateFrame(s, img) ==
    IF img.status = "nomem" THEN Ret(Logged(s, "QImage"), FALSE)
    ELSE ConvertFrame(
             [Logged(Logged(s, "QImage"), "avifImageYUVToRGB") EXCEPT !.allocated = TRUE],
             img,
             setColorSpace(NewImage(img.width, img.height,
                                    AllocFormat(img.depth, img.alphaPlane),
                                    s.m_decoder.imageIndex),
                           FrameColorSpace(img)))

\* decode_one_frame, after its call of ensureParsed
DecodeParsed(p) ==
    IF ~p.ret THEN Ret(p.s, FALSE)
    ELSE AllocateFrame(Dereferenced(p.s), Image(p.s))

decode_one_frame(s) == DecodeParsed(ensureParsed(s))

\* TooLarge with the height forgotten
TooLarge_widthOnly(w, h) == w > MaxDimension

\* m_container_width / m_container_height beyond what the handler accepts
TooLarge(w, h) == (w > MaxDimension) \/ (h > MaxDimension)

\* "Empty image, nothing to decode"
EmptyImage(w, h) == (w = 0) \/ (h = 0)

\* FirstFrame with m_parseState left as it is when the decode fails
FirstFrame_keepsSuccess(d) == Ret(d.s, d.ret)

\* ensureDecoder, after decode_one_frame of the first frame
FirstFrame(d) == IF d.ret THEN Ret(d.s, TRUE) ELSE Failed(d.s)

\* ensureDecoder, with the container size taken from the first frame
CheckContainer(s) ==
    IF TooLarge(s.m_container_width, s.m_container_height) THEN Failed(s)
    ELSE IF EmptyImage(s.m_container_width, s.m_container_height) THEN Failed(s)
    ELSE FirstFrame(decode_one_frame([s EXCEPT !.m_parseState = "Success"]))

\* ensureDecoder, after avifDecoderNextImage
FirstImage(n) ==
    IF n.ret
    THEN CheckContainer([n.s EXCEPT !.m_container_width = Image(n.s).width,
                                    !.m_container_height = Image(n.s).height])
    ELSE Failed(DestroyDecoder(n.s))

\* ensureDecoder, from avifDecoderParse on
ParseInput(s) ==
    IF file.header = "noparse" THEN Failed(DestroyDecoder(s))
    ELSE FirstImage(avifDecoderNextImage(
                        [s EXCEPT !.m_decoder.imageCount = Len(file.frames)]))

\* ensureDecoder, from avifDecoderSetIOMemory on
SetIOMemory(s) ==
    IF file.header = "noio" THEN Failed(DestroyDecoder(s))
    ELSE ParseInput([Logged(s, "avifDecoderParse") EXCEPT !.parses = Count(@)])

\* ensureDecoder, from avifPeekCompatibleFileType on
PeekFileType(s) ==
    IF file.header = "nosig" THEN Failed(s)
    ELSE SetIOMemory([Logged(s, "avifDecoderCreate") EXCEPT
                         !.m_decoder = [live |-> TRUE, imageCount |-> 0,
                                        imageIndex |-> -1],
                         !.decoders.created = Count(@)])

ensureDecoder(s) ==
    IF s.m_decoder.live THEN Ret(s, TRUE)
    ELSE PeekFileType([Logged(s, "readAll") EXCEPT !.reads = Count(@)])

\* ensureParsed that parses again after an error
ensureParsed_retry(s) ==
    IF s.m_parseState = "Success" THEN Ret(s, TRUE)
    ELSE ensureDecoder(s)

ensureParsed(s) ==
    IF s.m_parseState = "Success" THEN Ret(s, TRUE)
    ELSE IF s.m_parseState = "Error" THEN Ret(s, FALSE)
    ELSE ensureDecoder(s)

\* ~QAVIFHandler
destructor(s) == IF s.m_decoder.live THEN DestroyDecoder(s) ELSE s

-----------------------------------------------------------------------------
(* Animation *)

\* SizeMismatch with the height forgotten
SizeMismatch_widthOnly(s) == s.m_container_width # Image(s).width

\* the frame now in the decoder is not of the size of the first one
SizeMismatch(s) ==
    \/ s.m_container_width # Image(s).width
    \/ s.m_container_height # Image(s).height

\* jumpToNextImage / jumpToImage, after decode_one_frame
Decoded(f) ==
    IF f.ret THEN Ret([f.s EXCEPT !.advance = "done"], TRUE)
    ELSE Failed([f.s EXCEPT !.advance = "failed"])

\* the tail jumpToNextImage and jumpToImage share, after the decoder has moved:
\* d is the outcome of avifDecoderNextImage / avifDecoderNthImage
Landed(d) ==
    IF ~d.ret THEN Failed([d.s EXCEPT !.advance = "failed"])
    ELSE IF SizeMismatch(d.s)
         THEN Failed([d.s EXCEPT !.advance = "failed", !.landed = d.s.m_decoder.imageIndex])
    ELSE Decoded(decode_one_frame([d.s EXCEPT !.landed = d.s.m_decoder.imageIndex]))

\* AtLastFrame off by one: the last frame is not seen as the last
AtLastFrame_late(dec) == dec.imageIndex >= dec.imageCount

\* the decoder is at the last frame: start from the beginning
AtLastFrame(dec) == dec.imageIndex >= dec.imageCount - 1

\* jumpToNextImage, after its call of ensureParsed
NextParsed(p) ==
    IF ~p.ret THEN Ret(p.s, FALSE)
    ELSE IF p.s.m_decoder.imageCount < 2 THEN Ret(Dereferenced(p.s), TRUE)
    ELSE Landed(avifDecoderNextImage(
                    IF AtLastFrame(p.s.m_decoder) THEN avifDecoderReset(Dereferenced(p.s))
                    ELSE Dereferenced(p.s)))

jumpToNextImage(s) == NextParsed(ensureParsed(s))

\* WrongIndex off by one: imageCount is taken for an index
WrongIndex_late(imageNumber, count) == imageNumber < 0 \/ imageNumber > count

\* imageNumber is no frame of the animation
WrongIndex(imageNumber, count) == imageNumber < 0 \/ imageNumber >= count

\* JumpParsed with a wrong index taken for a decode error
JumpParsed_wrongIndexFails(p, imageNumber) ==
    IF ~p.ret THEN Ret(p.s, FALSE)
    ELSE IF p.s.m_decoder.imageCount < 2 THEN Ret(Dereferenced(p.s), imageNumber = 0)
    ELSE IF WrongIndex(imageNumber, p.s.m_decoder.imageCount)
         THEN Failed(Dereferenced(p.s))
    ELSE IF imageNumber = p.s.m_decoder.imageCount THEN Ret(Dereferenced(p.s), TRUE)
    ELSE Landed(avifDecoderNthImage(Dereferenced(p.s), imageNumber))

\* jumpToImage, after its call of ensureParsed
JumpParsed(p, imageNumber) ==
    IF ~p.ret THEN Ret(p.s, FALSE)
    ELSE IF p.s.m_decoder.imageCount < 2 THEN Ret(Dereferenced(p.s), imageNumber = 0)
    ELSE IF WrongIndex(imageNumber, p.s.m_decoder.imageCount)
         THEN Ret(Dereferenced(p.s), FALSE)
    ELSE IF imageNumber = p.s.m_decoder.imageCount THEN Ret(Dereferenced(p.s), TRUE)
    ELSE Landed(avifDecoderNthImage(Dereferenced(p.s), imageNumber))

jumpToImage(s, imageNumber) == JumpParsed(ensureParsed(s), imageNumber)

\* imageCount, after its call of ensureParsed
CountParsed(p) ==
    IF ~p.ret THEN Ret(p.s, 0)
    ELSE IF p.s.m_decoder.imageCount >= 1
         THEN Ret(Dereferenced(p.s), p.s.m_decoder.imageCount)
    ELSE Ret(Dereferenced(p.s), 0)

imageCount(s) == CountParsed(ensureParsed(s))

currentImageNumber(s) ==
    IF s.m_parseState = "NotParsed" THEN Ret(s, -1)
    ELSE IF s.m_parseState = "Error" \/ ~s.m_decoder.live THEN Ret(s, 0)
    ELSE Ret(s, s.m_decoder.imageIndex)

\* ReadCounted without the request to advance at the next read
ReadCounted_stays(c, image) == [s |-> c.s, ret |-> TRUE, image |-> image]

\* nextImageDelay, after its call of ensureParsed: the duration of the frame in
\* milliseconds, 1 at least
DelayParsed(p) ==
    IF ~p.ret THEN Ret(p.s, 0)
    ELSE IF p.s.m_decoder.imageCount < 2 THEN Ret(Dereferenced(p.s), 0)
    ELSE IF Image(p.s).duration < 1 THEN Ret(Dereferenced(p.s), 1)
    ELSE Ret(Dereferenced(p.s), Image(p.s).duration)

nextImageDelay(s) == DelayParsed(ensureParsed(s))

\* loopCount, after its call of ensureParsed
LoopParsed(p) ==
    IF ~p.ret THEN Ret(p.s, 0)
    ELSE IF p.s.m_decoder.imageCount < 2 THEN Ret(Dereferenced(p.s), 0)
    ELSE Ret(Dereferenced(p.s), 1)

loopCount(s) == LoopParsed(ensureParsed(s))

\* read, after imageCount(): c is its outcome, image what *image was set to
ReadCounted(c, image) ==
    [s |-> IF c.ret >= 2 THEN [c.s EXCEPT !.m_must_jump_to_next_image = TRUE] ELSE c.s,
     ret |-> TRUE, image |-> image]

\* read, after the jumpToNextImage it may have made (its result is dropped)
ReadImage(s) == ReadCounted(imageCount(s), s.m_current_image)

\* ReadParsed with the result of ensureParsed ignored
ReadParsed_unchecked(p) ==
    ReadImage(IF p.s.m_must_jump_to_next_image THEN jumpToNextImage(p.s).s ELSE p.s)

\* read, after its call of ensureParsed; *image is left alone when it fails
\* (the null image stands for that)
ReadParsed(p) ==
    IF ~p.ret THEN [s |-> p.s, ret |-> FALSE, image |-> NullImage]
    ELSE ReadImage(IF p.s.m_must_jump_to_next_image THEN jumpToNextImage(p.s).s ELSE p.s)

read(s) == ReadParsed(ensureParsed(s))

-----------------------------------------------------------------------------
(* Options *)

\* Quality with a negative value clamped to 0 instead of reset to the default
Quality_clamped(v) ==
    IF v > MaxQuality THEN MaxQuality
    ELSE IF v < 0 THEN 0
    ELSE v

\* setOption(Quality, value): the quality kept for value.toInt() = v
Quality(v) ==
    IF v > MaxQuality THEN MaxQuality
    ELSE IF v < 0 THEN DefaultQuality
    ELSE v

setOption(s, v) == [s EXCEPT !.m_quality = Quality(v)]

\* option(Quality)
option(s) == Ret(s, s.m_quality)

-----------------------------------------------------------------------------
(* Writing: the image handed to write, and what the encoder and the device do *)

\* QImage::depth(): bits per pixel
FormatDepth(format) ==
    CASE format \in {"Format_Mono", "Format_MonoLSB"} -> 1
      [] format \in {"Format_Indexed8", "Format_Grayscale8"} -> 8
      [] format = "Format_Grayscale16" -> 16
      [] format = "Format_RGB888" -> 24
      [] format \in {"Format_RGBX64", "Format_RGBA64", "Format_RGBA64_Premultiplied",
                     "Format_RGBA16FPx4"} -> 64
      [] OTHER -> 32

\* the formats whose hasAlphaChannel() is true; an indexed or monochrome image
\* has one when its colour table has
AlphaFormats == {"Format_ARGB32", "Format_A2RGB30_Premultiplied", "Format_RGBA64",
                 "Format_RGBA64_Premultiplied", "Format_RGBA16FPx4"}

PaletteFormats == {"Format_Mono", "Format_MonoLSB", "Format_Indexed8"}

OpaqueFormats == {"Format_Grayscale8", "Format_Grayscale16", "Format_RGB32",
                  "Format_RGB888", "Format_RGB30", "Format_BGR30", "Format_RGBX64"}

\* QColorSpace: valid or not; primaries and transfer function; gamma in
\* hundredths; icc: iccProfile() is not empty
ColorSpace(valid, primaries, trc, gamma, icc) ==
    [valid |-> valid, primaries |-> primaries, transferFunction |-> trc,
     gamma |-> gamma, icc |-> icc]

NoColorSpace == ColorSpace(FALSE, "Custom", "Custom", 0, FALSE)

SRgbColorSpace == ColorSpace(TRUE, "SRgb", "SRgb", 0, TRUE)

ColorSpaces ==
    {NoColorSpace, ColorSpace(FALSE, "Custom", "Custom", 0, TRUE)}
    \cup {ColorSpace(TRUE, pr, trc, 0, TRUE) :
            pr \in {"SRgb", "DciP3D65", "AdobeRgb", "Custom"},
            trc \in {"Linear", "SRgb", "ProPhotoRgb"}}
    \cup {ColorSpace(TRUE, pr, "Gamma", g, TRUE) :
            pr \in {"SRgb", "DciP3D65", "AdobeRgb", "Custom"},
            g \in {180, 220, 228, 280}}

QImage(format, w, h, alpha, gray, cs) ==
    [format |-> format, width |-> w, height |-> h, depth |-> FormatDepth(format),
     hasAlphaChannel |-> alpha, isGrayscale |-> gray, colorSpace |-> cs]

\* width and height of the images written: small, the largest accepted, too large
Sizes == {<<5, 3>>, <<MaxDimension, 1>>, <<MaxDimension + 1, 1>>, <<1, MaxDimension + 1>>}

\* the images write is called with: every format in every size, and the formats
\* of each kind in every colour space
Images ==
    {QImage(f, sz[1], sz[2], FALSE, f \in {"Format_Grayscale8", "Format_Grayscale16"}, cs) :
        f \in OpaqueFormats, sz \in Sizes, cs \in {NoColorSpace, SRgbColorSpace}}
    \cup {QImage(f, sz[1], sz[2], TRUE, FALSE, cs) :
        f \in AlphaFormats, sz \in Sizes, cs \in {NoColorSpace, SRgbColorSpace}}
    \cup {QImage(f, sz[1], sz[2], a, g, SRgbColorSpace) :
        f \in PaletteFormats, sz \in Sizes, a \in BOOLEAN, g \in BOOLEAN}
    \cup {QImage(f, 5, 3, f = "Format_ARGB32", f = "Format_Grayscale8", cs) :
        f \in {"Format_Grayscale8", "Format_RGB32", "Format_ARGB32", "Format_RGBX64"},
        cs \in ColorSpaces}
    \cup {QImage("Format_Invalid", 0, 0, FALSE, FALSE, NoColorSpace)}

\* what avifImageRGBToYUV, avifEncoderWrite and device()->write answer:
\* convert, encode: AVIF_RESULT_OK or not; status: the bytes written, or -1
Answers == [convert : BOOLEAN, encode : BOOLEAN, status : {-1, 0, 100}]

-----------------------------------------------------------------------------
(* QAVIFHandler::write *)

qBound(min, val, max) == IF val < min THEN min ELSE IF val > max THEN max ELSE val

MaxQuantizer(quality) ==
    (AVIF_QUANTIZER_WORST_QUALITY * (100 - qBound(0, quality, 100))) \div 100

MinQuantizer(maxQuantizer) == IF maxQuantizer > 20 THEN maxQuantizer - 20 ELSE 0

MaxQuantizerAlpha(maxQuantizer) ==
    IF maxQuantizer > 20 /\ maxQuantizer > 40 THEN maxQuantizer - 40 ELSE 0

\* PixelFormat with the limit of 4:4:4 off by one
PixelFormat_late(maxQuantizer) ==
    IF maxQuantizer < 20
    THEN IF maxQuantizer <= 10 THEN "YUV444" ELSE "YUV422"
    ELSE "YUV420"

\* chroma subsampling of a colour image
PixelFormat(maxQuantizer) ==
    IF maxQuantizer < 20
    THEN IF maxQuantizer < 10 THEN "YUV444" ELSE "YUV422"
    ELSE "YUV420"

\* grayscale detection that takes every indexed image for a colour image
SaveGrayscale_noPalette(image) ==
    image.format \in {"Format_Mono", "Format_MonoLSB", "Format_Grayscale8",
                      "Format_Grayscale16"}

\* grayscale detection
SaveGrayscale(image) ==
    CASE image.format \in {"Format_Mono", "Format_MonoLSB", "Format_Grayscale8",
                           "Format_Grayscale16"} -> TRUE
      [] image.format = "Format_Indexed8" -> image.isGrayscale
      [] OTHER -> FALSE

\* depth detection
SaveDepth(image) ==
    IF image.format \in {"Format_BGR30", "Format_A2BGR30_Premultiplied", "Format_RGB30",
                         "Format_A2RGB30_Premultiplied", "Format_Grayscale16",
                         "Format_RGBX64", "Format_RGBA64", "Format_RGBA64_Premultiplied"}
    THEN 10
    ELSE IF image.depth > 32 THEN 10 ELSE 8

\* what write has decided and done: ret its result; the avifImage it built
\* (width, height, save_depth, pixel_format, colour tags, icc: a profile was
\* attached); tmpformat and converted: the format and the colour space the
\* pixels were converted to ("no": not converted); alphaQuantizer: the
\* encoder's maxQuantizerAlpha was set; log: the libavif and device calls made;
\* answer: what those calls answered
NoPlan ==
    [op |-> "none", ret |-> FALSE, quality |-> 0, image |-> QImage("Format_Invalid", 0, 0,
                                                      FALSE, FALSE, NoColorSpace),
     save_grayscale |-> FALSE, save_depth |-> 0, tmpformat |-> "Format_Invalid",
     pixel_format |-> "none", width |-> 0, height |-> 0,
     minQuantizer |-> 0, maxQuantizer |-> 0, maxQuantizerAlpha |-> 0,
     alphaQuantizer |-> FALSE,
     colorPrimaries |-> 2, transferCharacteristics |-> 2, matrixCoefficients |-> 2,
     icc |-> FALSE, converted |-> "no", log |-> <<>>,
     answer |-> [convert |-> TRUE, encode |-> TRUE, status |-> 0]]

Did(w, what) == [w EXCEPT !.log = Append(@, what)]

\* WriteDevice with an empty write taken for a success
WriteDevice_nonNegative(w, answer) ==
    IF answer.status >= 0 THEN [w EXCEPT !.ret = TRUE]
    ELSE [w EXCEPT !.ret = FALSE]

\* write, from the device write on
WriteDevice(w, answer) ==
    IF answer.status > 0 THEN [w EXCEPT !.ret = TRUE]
    ELSE [w EXCEPT !.ret = FALSE]

\* write, from avifEncoderCreate on
Encode(w, answer) ==
    IF answer.encode
    THEN WriteDevice(Did(Did(Did(Did(Did(Did(w, "avifEncoderCreate"), "avifEncoderWrite"),
                                     "avifEncoderDestroy"), "avifImageDestroy"),
                             "write"), "avifRWDataFree"),
                     answer)
    ELSE [Did(Did(Did(Did(w, "avifEncoderCreate"), "avifEncoderWrite"),
                  "avifEncoderDestroy"), "avifImageDestroy")
             EXCEPT !.ret = FALSE]

\* the encoder's quantizers
SetQuantizers(w) == [w EXCEPT !.alphaQuantizer = w.image.hasAlphaChannel]

\* transferCharacteristics of a grayscale image with a valid colour space
GrayTransfer(cs) ==
    CASE cs.transferFunction = "Linear" -> 8
      [] cs.transferFunction = "SRgb" -> 13
      [] OTHER -> 2

\* write, for a grayscale image without alpha channel
SaveGray(w, answer) ==
    Encode(SetQuantizers(
               [Did(Did(w, "avifImageCreate"), "avifImageAllocatePlanes") EXCEPT
                   !.tmpformat = IF w.save_depth > 8 THEN "Format_Grayscale16"
                                 ELSE "Format_Grayscale8",
                   !.pixel_format = "YUV400",
                   !.width = w.image.width,
                   !.height = w.image.height,
                   !.colorPrimaries = IF w.image.colorSpace.valid THEN 1 ELSE 2,
                   !.matrixCoefficients = IF w.image.colorSpace.valid THEN 1 ELSE 2,
                   !.transferCharacteristics =
                       IF w.image.colorSpace.valid THEN GrayTransfer(w.image.colorSpace)
                       ELSE 2]),
           answer)

\* write, from avifImageCreate on, for a colour image
CreateColor(w, answer) ==
    IF answer.convert
    THEN Encode(SetQuantizers(
                    Did(IF w.icc THEN Did(Did(w, "avifImageCreate"), "avifImageSetProfileICC")
                        ELSE Did(w, "avifImageCreate"),
                        "avifImageRGBToYUV")),
                answer)
    ELSE [Did(IF w.icc THEN Did(Did(w, "avifImageCreate"), "avifImageSetProfileICC")
              ELSE Did(w, "avifImageCreate"),
              "avifImageRGBToYUV")
             EXCEPT !.ret = FALSE]

PrimariesToSave(cs) ==
    CASE cs.primaries = "SRgb" -> 1
      [] cs.primaries = "DciP3D65" -> 12
      [] OTHER -> 2

MatrixToSave(cs) ==
    CASE cs.primaries = "SRgb" -> 1
      [] cs.primaries = "DciP3D65" -> 12
      [] OTHER -> 2

Abs(x) == IF x < 0 THEN -x ELSE x

TransferToSave(cs) ==
    CASE cs.transferFunction = "Linear" -> 8
      [] cs.transferFunction = "Gamma" ->
            IF Abs(cs.gamma - 220) < 10 THEN 4
            ELSE IF Abs(cs.gamma - 280) < 10 THEN 5
            ELSE 2
      [] cs.transferFunction = "SRgb" -> 13
      [] OTHER -> 2

\* the colour space convertToColorSpace is called with for other primaries and
\* a known transfer function
SRgbWith(transfer) ==
    CASE transfer = 8 -> "SRgb primaries, Linear"
      [] transfer = 4 -> "SRgb primaries, Gamma 2.2"
      [] transfer = 5 -> "SRgb primaries, Gamma 2.8"
      [] OTHER -> "SRgb primaries, SRgb"

\* "in case primaries or trc were not identified", after the upgrade of the depth
Identify(w) ==
    IF w.colorPrimaries = 2 /\ w.transferCharacteristics # 2
    THEN [w EXCEPT !.colorPrimaries = 1, !.matrixCoefficients = 1,
                   !.converted = SRgbWith(w.transferCharacteristics),
                   !.transferCharacteristics =
                       IF @ \in {8, 4, 5} THEN @ ELSE 13]
    ELSE IF w.colorPrimaries # 2 /\ w.transferCharacteristics = 2
    THEN [w EXCEPT !.transferCharacteristics = 13,
                   !.converted = "same primaries, SRgb"]
    ELSE [w EXCEPT !.colorPrimaries = 1, !.transferCharacteristics = 13,
                   !.matrixCoefficients = 1,
                   !.converted = "SRgb primaries, SRgb"]

\* Upgrade left out: the depth stays what the format gave
Upgrade_skipped(w) == w

\* "upgrade image to higher bit depth"
Upgrade(w) ==
    IF w.save_depth = 8
    THEN [w EXCEPT !.save_depth = 10,
                   !.tmpformat = IF w.image.hasAlphaChannel THEN "Format_RGBA64"
                                 ELSE "Format_RGBX64"]
    ELSE w

\* write, with the colour space of a colour image classified
Classified(w) ==
    IF w.colorPrimaries = 2 \/ w.transferCharacteristics = 2
    THEN Identify(Upgrade(w))
    ELSE w

\* write, from the colour space of a colour image on
TagColor(w) ==
    IF w.image.colorSpace.valid
    THEN Classified([w EXCEPT
                        !.colorPrimaries = PrimariesToSave(w.image.colorSpace),
                        !.matrixCoefficients = MatrixToSave(w.image.colorSpace),
                        !.transferCharacteristics = TransferToSave(w.image.colorSpace)])
    ELSE [w EXCEPT !.icc = w.image.colorSpace.icc,
                   !.matrixCoefficients = IF w.image.colorSpace.icc THEN 6 ELSE 1]

\* the format of the temporary colour image
ColorFormat(save_depth, alpha) ==
    IF save_depth > 8
    THEN IF alpha THEN "Format_RGBA64" ELSE "Format_RGBX64"
    ELSE IF alpha THEN "Format_RGBA8888" ELSE "Format_RGB888"

\* write, for a colour image
SaveColor(w, answer) ==
    CreateColor(TagColor([w EXCEPT
                             !.tmpformat = ColorFormat(w.save_depth, w.image.hasAlphaChannel),
                             !.pixel_format = PixelFormat(w.maxQuantizer),
                             !.width = w.image.width,
                             !.height = w.image.height,
                             !.matrixCoefficients = 1]),
                answer)

\* write, with the quantizers, the grayscale and the depth decided
Save(w, answer) ==
    IF w.save_grayscale /\ ~w.image.hasAlphaChannel THEN SaveGray(w, answer)
    ELSE SaveColor(w, answer)

\* write, for an image it accepts
Plan(image, quality, maxQuantizer, answer) ==
    [NoPlan EXCEPT !.op = "write", !.image = image, !.quality = quality,
                   !.answer = answer,
                   !.maxQuantizer = maxQuantizer,
                   !.minQuantizer = MinQuantizer(maxQuantizer),
                   !.maxQuantizerAlpha = MaxQuantizerAlpha(maxQuantizer),
                   !.save_grayscale = SaveGrayscale(image),
                   !.save_depth = SaveDepth(image)]

write(s, image, answer) ==
    IF image.format = "Format_Invalid"
    THEN [NoPlan EXCEPT !.op = "write", !.image = image, !.quality = s.m_quality,
                        !.answer = answer]
    ELSE IF image.width > MaxDimension \/ image.height > MaxDimension
    THEN [NoPlan EXCEPT !.op = "write", !.image = image, !.quality = s.m_quality,
                        !.answer = answer]
    ELSE Save(Plan(image, s.m_quality, MaxQuantizer(s.m_quality), answer), answer)

-----------------------------------------------------------------------------
(* The handler as a state machine: one action per public call *)

\* the values setOption(Quality, v) is called with
Qualities == {-5, 0, 37, MaxQuality, 150}

\* the indices jumpToImage is called with
Indices == -1 .. MaxFrames

\* op, arg: the call; pre: m_parseState when it was made; ret / value: what it
\* returned (a bool / an int); image: what read stored in *image; log: the device,
\* libavif and allocation calls it made; advance: whether it moved to another
\* frame ("done"), tried and failed ("failed") or did not try ("none");
\* landed: the index of the frame the decoder was moved to, -1 when none;
\* deref: m_decoder was dereferenced, "null" when it was null then
NoCall == [op |-> "none", arg |-> 0, pre |-> "NotParsed", ret |-> TRUE, value |-> 0,
           advance |-> "none", landed |-> -1, log |-> <<>>, image |-> NullImage,
           deref |-> "none"]

\* the handler, not yet destroyed, becomes s; the call is recorded
Becomes(s, c) ==
    /\ call.op # "~QAVIFHandler"
    /\ m_parseState' = s.m_parseState
    /\ m_quality' = s.m_quality
    /\ m_container_width' = s.m_container_width
    /\ m_container_height' = s.m_container_height
    /\ m_decoder' = s.m_decoder
    /\ m_current_image' = s.m_current_image
    /\ m_must_jump_to_next_image' = s.m_must_jump_to_next_image
    /\ reads' = s.reads
    /\ parses' = s.parses
    /\ allocated' = s.allocated
    /\ decoders' = s.decoders
    /\ call' = [c EXCEPT !.pre = m_parseState, !.advance = s.advance,
                         !.landed = s.landed, !.log = s.log, !.deref = s.deref]
    /\ UNCHANGED <<file, encoded>>

\* the handler as its constructor leaves it
Fresh ==
    /\ m_parseState = "NotParsed"
    /\ m_quality = DefaultQuality
    /\ m_container_width = 0
    /\ m_container_height = 0
    /\ m_decoder = NullDecoder
    /\ m_current_image = NullImage
    /\ m_must_jump_to_next_image = FALSE
    /\ reads = 0
    /\ parses = 0
    /\ allocated = FALSE
    /\ decoders = [created |-> 0, destroyed |-> 0]
    /\ call = NoCall
    /\ encoded = NoPlan

\* a handler for reading, on a device holding any of the streams
Init ==
    /\ file \in Files
    /\ Fresh

EnsureParsed ==
    LET r == ensureParsed(This)
    IN  Becomes(r.s, [NoCall EXCEPT !.op = "ensureParsed", !.ret = r.ret])

Read ==
    LET r == read(This)
    IN  Becomes(r.s, [NoCall EXCEPT !.op = "read", !.ret = r.ret, !.image = r.image])

JumpToNextImage ==
    LET r == jumpToNextImage(This)
    IN  Becomes(r.s, [NoCall EXCEPT !.op = "jumpToNextImage", !.ret = r.ret])

JumpToImage ==
    \E n \in Indices :
        LET r == jumpToImage(This, n)
        IN  Becomes(r.s, [NoCall EXCEPT !.op = "jumpToImage", !.arg = n, !.ret = r.ret])

ImageCount ==
    LET r == imageCount(This)
    IN  Becomes(r.s, [NoCall EXCEPT !.op = "imageCount", !.value = r.ret])

CurrentImageNumber ==
    LET r == currentImageNumber(This)
    IN  Becomes(r.s, [NoCall EXCEPT !.op = "currentImageNumber", !.value = r.ret])

SetOption ==
    \E v \in Qualities :
        Becomes(setOption(This, v), [NoCall EXCEPT !.op = "setOption", !.arg = v])

Option ==
    LET r == option(This)
    IN  Becomes(r.s, [NoCall EXCEPT !.op = "option", !.value = r.ret])

NextImageDelay ==
    LET r == nextImageDelay(This)
    IN  Becomes(r.s, [NoCall EXCEPT !.op = "nextImageDelay", !.value = r.ret])

LoopCount ==
    LET r == loopCount(This)
    IN  Becomes(r.s, [NoCall EXCEPT !.op = "loopCount", !.value = r.ret])

\* the handler is destroyed
Destructor == Becomes(destructor(This), [NoCall EXCEPT !.op = "~QAVIFHandler"])

Next ==
    \/ EnsureParsed
    \/ Read
    \/ JumpToNextImage
    \/ JumpToImage
    \/ ImageCount
    \/ CurrentImageNumber
    \/ SetOption
    \/ Option
    \/ NextImageDelay
    \/ LoopCount
    \/ Destructor

Spec == Init /\ [][Next]_vars

-----------------------------------------------------------------------------
(* The handler as it is used for writing: its quality is set, then one image *)
(* is written                                                                *)

\* the values setOption(Quality, v) is called with before a write
WriteQualities == -1 .. MaxQuality + 1

InitWrite ==
    /\ file = [header |-> "nosig", frames |-> <<>>]
    /\ Fresh

SetQuality ==
    /\ encoded.op = "none"
    /\ \E v \in WriteQualities :
           Becomes(setOption(This, v), [NoCall EXCEPT !.op = "setOption", !.arg = v])

Write ==
    /\ encoded.op = "none"
    /\ \E image \in Images, answer \in Answers :
           /\ encoded' = write(This, image, answer)
           /\ call' = [NoCall EXCEPT !.op = "write", !.pre = m_parseState,
                                     !.ret = encoded'.ret]
    /\ UNCHANGED <<file, m_parseState, m_quality, m_container_width, m_container_height,
                   m_decoder, m_current_image, m_must_jump_to_next_image,
                   reads, parses, allocated, decoders>>

\* the handler is destroyed after the write
DestructorWrite ==
    /\ encoded.op = "write"
    /\ Becomes(destructor(This), [NoCall EXCEPT !.op = "~QAVIFHandler"])

NextWrite ==
    \/ SetQuality
    \/ Write
    \/ DestructorWrite

SpecWrite == InitWrite /\ [][NextWrite]_vars

-----------------------------------------------------------------------------
(* The round trip: an image is written, and what the device then holds is    *)
(* read back by another handler                                              *)

\* the stream avifEncoderWrite made of the avifImage write built: one frame of
\* its size, depth, pixel format and colour description, with an alpha plane
\* when the image had an alpha channel
Written(w) ==
    [header |-> "ok",
     frames |-> <<[Frame(w.width, w.height, "ok", w.save_depth, w.image.hasAlphaChannel,
                         w.pixel_format, NoClap, -1, -1) EXCEPT
                      !.icc = IF w.icc THEN "rejected" ELSE "none",
                      !.colorPrimaries = w.colorPrimaries,
                      !.transferCharacteristics = w.transferCharacteristics]>>]

\* a handler is made for reading on the device the write went to
Reopen ==
    /\ encoded.op = "write"
    /\ encoded.ret
    /\ file.header = "nosig"
    /\ file' = Written(encoded)
    /\ m_parseState' = "NotParsed"
    /\ m_container_width' = 0
    /\ m_container_height' = 0
    /\ m_decoder' = NullDecoder
    /\ m_current_image' = NullImage
    /\ m_must_jump_to_next_image' = FALSE
    /\ reads' = 0
    /\ parses' = 0
    /\ allocated' = FALSE
    /\ decoders' = [created |-> 0, destroyed |-> 0]
    /\ call' = NoCall
    /\ UNCHANGED <<m_quality, encoded>>

\* the new handler reads
ReadBack ==
    /\ file.header = "ok"
    /\ Read

NextRoundTrip ==
    \/ SetQuality
    \/ Write
    \/ Reopen
    \/ ReadBack

SpecRoundTrip == InitWrite /\ [][NextRoundTrip]_vars

-----------------------------------------------------------------------------
(* The claims about the decode side and the options, checked under Spec *)

\* the calls that decode
DecodeCalls == {"ensureParsed", "read", "jumpToNextImage", "jumpToImage"}

\* the calls that begin with ensureParsed()
ParsingCalls == DecodeCalls \cup {"imageCount", "nextImageDelay", "loopCount"}

\* C1: Error is terminal.  A call made when m_parseState is Error leaves it
\* Error; if it is ensureParsed, read, jumpToNextImage or jumpToImage it
\* returns false, and imageCount returns 0.
C1_ErrorIsTerminal ==
    call.pre = "Error" =>
        /\ m_parseState = "Error"
        /\ call.op \in DecodeCalls => ~call.ret
        /\ call.op = "imageCount" => call.value = 0

\* a read refused after a jump had failed on a stream that had parsed
C1_Witness ==
    /\ call.pre = "Error"
    /\ call.op = "read"
    /\ ~call.ret
    /\ ~m_current_image.null

\* C2: m_parseState moves only NotParsed -> Success and NotParsed -> Error, both
\* by the first ensureParsed (the one that reads the device), and Success ->
\* Error, by a call whose frame advance or jump failed.  It never returns to
\* NotParsed, and a jumpToNextImage or jumpToImage that returns true leaves it
\* Success.
C2_ParseStateMoves ==
    /\ m_parseState = "NotParsed" => call.pre = "NotParsed" /\ reads = 0
    /\ (call.pre = "NotParsed" /\ m_parseState # "NotParsed") =>
           /\ call.op \in ParsingCalls
           /\ call.log # <<>> /\ call.log[1] = "readAll"
           /\ reads = 1
    /\ (call.pre = "Success" /\ m_parseState # "Success") =>
           /\ m_parseState = "Error"
           /\ call.op \in {"jumpToNextImage", "jumpToImage", "read"}
           /\ call.advance = "failed"
    /\ call.pre = "Error" => m_parseState = "Error"
    /\ (call.op \in {"jumpToNextImage", "jumpToImage"} /\ call.ret) =>
           m_parseState = "Success"

\* a jumpToImage that took the handler from Success to Error
C2_Witness ==
    /\ call.pre = "Success"
    /\ m_parseState = "Error"
    /\ call.op = "jumpToImage"

\* C3: the device is read and the container parsed at most once, and an
\* ensureParsed after the first returns what the first left in m_parseState,
\* calls neither the device nor libavif and changes nothing of the handler.
C3_ParsedOnce ==
    /\ [](reads <= 1 /\ parses <= 1)
    /\ [][(call'.op = "ensureParsed" /\ m_parseState # "NotParsed") =>
             /\ call'.ret = (m_parseState = "Success")
             /\ call'.log = <<>>
             /\ UNCHANGED <<m_parseState, m_decoder, m_current_image,
                            m_must_jump_to_next_image, m_container_width,
                            m_container_height, reads, parses>>]_vars

\* an ensureParsed on a handler whose first parse had failed with the decoder destroyed
C3_Witness ==
    /\ call.op = "ensureParsed"
    /\ call.pre = "Error"
    /\ ~m_decoder.live
    /\ reads = 1

\* C4: when the first frame of the container is wider or higher than 32768, or
\* has width or height 0, then once parsing has been tried m_parseState is
\* Error, the call that tried returned false, no pixel buffer was ever
\* allocated and m_current_image is the null image.
C4_BadSizeRejected ==
    (/\ file.header = "ok"
     /\ Len(file.frames) >= 1
     /\ file.frames[1].status = "ok"
     /\ \/ file.frames[1].width > 32768
        \/ file.frames[1].height > 32768
        \/ file.frames[1].width = 0
        \/ file.frames[1].height = 0
     /\ reads > 0)
    => /\ m_parseState = "Error"
       /\ ~allocated
       /\ m_current_image.null
       /\ (call.pre = "NotParsed" /\ call.op \in DecodeCalls) => ~call.ret

\* the first ensureParsed on a container whose first frame is too high
C4_Witness ==
    /\ Len(file.frames) >= 1
    /\ file.frames[1].height = 32769
    /\ file.frames[1].width <= 32768
    /\ call.op = "ensureParsed"
    /\ call.pre = "NotParsed"
    /\ m_parseState = "Error"

\* C5: a jumpToNextImage or jumpToImage that moves the decoder to a frame whose
\* width or height is not the container's returns false, leaves m_parseState
\* Error and leaves m_current_image as it was.
C5_MismatchIsError ==
    [][(/\ call'.op \in {"jumpToNextImage", "jumpToImage"}
        /\ m_parseState = "Success"
        /\ call'.landed >= 0
        /\ \/ file.frames[call'.landed + 1].width # m_container_width
           \/ file.frames[call'.landed + 1].height # m_container_height)
       => /\ ~call'.ret
          /\ m_parseState' = "Error"
          /\ m_current_image' = m_current_image]_vars

\* a jumpToImage that landed on a frame of another height only
C5_Witness ==
    /\ call.op = "jumpToImage"
    /\ call.pre = "Success"
    /\ call.landed >= 0
    /\ file.frames[call.landed + 1].width = m_container_width
    /\ file.frames[call.landed + 1].height # m_container_height
    /\ m_parseState = "Error"

\* an animation of at least two frames, every one decodable and of the size of
\* the first, which the handler accepts
SoundAnimation ==
    /\ file.header = "ok"
    /\ Len(file.frames) >= 2
    /\ \A i \in 1..Len(file.frames) :
           /\ file.frames[i].status = "ok"
           /\ file.frames[i].width = file.frames[1].width
           /\ file.frames[i].height = file.frames[1].height
    /\ file.frames[1].width \in 1..32768
    /\ file.frames[1].height \in 1..32768

\* C6: on such an animation of N frames a jumpToNextImage made at frame i
\* returns true and leaves the decoder, and m_current_image, at frame
\* (i+1) mod N; so after a jumpToImage(N-1) it leaves them at frame 0.
C6_NextWraps ==
    [][(SoundAnimation /\ call'.op = "jumpToNextImage" /\ m_parseState = "Success")
       => /\ call'.ret
          /\ m_parseState' = "Success"
          /\ m_decoder'.imageIndex = (m_decoder.imageIndex + 1) % Len(file.frames)
          /\ m_current_image'.frame = m_decoder'.imageIndex
          /\ (call.op = "jumpToImage" /\ call.arg = Len(file.frames) - 1 /\ call.ret)
                => m_decoder'.imageIndex = 0]_vars

\* a jumpToNextImage from the last frame that wrapped to frame 0
C6_Witness ==
    /\ SoundAnimation
    /\ call.op = "jumpToNextImage"
    /\ call.pre = "Success"
    /\ call.ret
    /\ call.log = <<"avifDecoderReset", "avifDecoderNextImage", "QImage",
                    "avifImageYUVToRGB">>
    /\ m_decoder.imageIndex = 0
    /\ m_current_image.frame = 0

\* C7: on a parsed container of N frames, jumpToImage(n) with n < 0 or n >= N
\* (on a single frame: any n but 0) returns false without a call of libavif and
\* leaves m_parseState Success and the decoder, m_current_image and
\* m_must_jump_to_next_image as they were.
C7_WrongIndexRefused ==
    [][(/\ call'.op = "jumpToImage"
        /\ m_parseState = "Success"
        /\ (call'.arg < 0 \/ call'.arg >= Len(file.frames)))
       => /\ ~call'.ret
          /\ call'.log = <<>>
          /\ m_parseState' = "Success"
          /\ UNCHANGED <<m_decoder, m_current_image, m_must_jump_to_next_image>>]_vars

\* jumpToImage(imageCount) refused on an animation
C7_Witness ==
    /\ call.op = "jumpToImage"
    /\ call.pre = "Success"
    /\ Len(file.frames) >= 2
    /\ call.arg = Len(file.frames)
    /\ ~call.ret
    /\ m_parseState = "Success"

\* C8: m_quality is 52 on a fresh handler and always in 0..100; setOption(
\* Quality, v) leaves it v when 0 <= v <= 100, 100 when v > 100 and 52 when
\* v < 0, whatever m_parseState is; option(Quality) returns it and no other
\* call changes it.
C8_QualityInRange ==
    /\ m_quality = 52
    /\ [](m_quality \in 0..100)
    /\ [][/\ call'.op = "setOption" =>
                m_quality' = IF call'.arg > 100 THEN 100
                             ELSE IF call'.arg < 0 THEN 52
                             ELSE call'.arg
          /\ call'.op = "option" => call'.value = m_quality
          /\ call'.op # "setOption" => m_quality' = m_quality]_vars

\* setOption(Quality, -5) on a handler that had been set to another quality and
\* has parsed its stream
C8_Witness ==
    /\ call.op = "setOption"
    /\ call.arg = -5
    /\ m_quality = 52
    /\ m_parseState = "Success"

-----------------------------------------------------------------------------
(* The claims about writing, checked under SpecWrite *)

\* write accepts the image: it has a format and is not too large
Accepted(image) ==
    /\ image.format # "Format_Invalid"
    /\ image.width <= 32768
    /\ image.height <= 32768

\* the image is grayscale without alpha channel
GrayOpaque(image) ==
    /\ \/ image.format \in {"Format_Mono", "Format_MonoLSB", "Format_Grayscale8",
                             "Format_Grayscale16"}
       \/ image.format = "Format_Indexed8" /\ image.isGrayscale
    /\ ~image.hasAlphaChannel

\* the reference mapping from quality to the quantizers
QuantizersAsStated(w) ==
    /\ w.maxQuantizer = (63 * (100 - w.quality)) \div 100
    /\ w.minQuantizer = IF w.maxQuantizer - 20 > 0 THEN w.maxQuantizer - 20 ELSE 0
    /\ w.maxQuantizerAlpha = IF w.maxQuantizer - 40 > 0 THEN w.maxQuantizer - 40 ELSE 0

\* the reference mapping from the quantizer to the chroma subsampling
ChromaAsStated(w) ==
    w.pixel_format = IF w.maxQuantizer < 10 THEN "YUV444"
                     ELSE IF w.maxQuantizer < 20 THEN "YUV422"
                     ELSE "YUV420"

\* C9 as stated: for every quality in 0..100 the plan of write has the
\* quantizers of the reference mapping and the chroma subsampling it gives:
\* 4:4:4 below 10, 4:2:2 below 20, 4:2:0 otherwise.
C9_AsStated ==
    (encoded.op = "write" /\ Accepted(encoded.image)) =>
        /\ encoded.quality \in 0..100
        /\ QuantizersAsStated(encoded)
        /\ ChromaAsStated(encoded)

\* C9 as amended: for every quality in 0..100 the plan of write has the
\* quantizers of the reference mapping; an image saved in colour has the chroma
\* subsampling it gives, and a grayscale image without alpha channel is saved
\* monochrome (YUV400) at every quality.
C9_PlanFromQuality ==
    (encoded.op = "write" /\ Accepted(encoded.image)) =>
        /\ encoded.quality \in 0..100
        /\ QuantizersAsStated(encoded)
        /\ IF GrayOpaque(encoded.image) THEN encoded.pixel_format = "YUV400"
           ELSE ChromaAsStated(encoded)

\* a colour image written at quality 84: maxQuantizer 10, the first with 4:2:2
C9_Witness ==
    /\ encoded.op = "write"
    /\ encoded.ret
    /\ encoded.quality = 84
    /\ encoded.maxQuantizer = 10
    /\ encoded.minQuantizer = 0
    /\ encoded.pixel_format = "YUV422"

\* the rows of the table of host formats, by QImage::Format
HostFormat(fmt) ==
    CASE fmt = "Format_RGBA64" -> "16-bit RGBA"
      [] fmt = "Format_Grayscale16" -> "16-bit grayscale"
      [] fmt = "Format_RGBX64" -> "16-bit RGB padded"
      [] fmt \in {"Format_ARGB32", "Format_RGBA8888"} -> "8-bit RGBA"
      [] fmt = "Format_Grayscale8" -> "8-bit grayscale"
      [] fmt \in {"Format_RGB32", "Format_RGB888"} -> "8-bit RGB"
      [] OTHER -> fmt

\* the table: the host format for a frame of that depth, alpha and YUV format
TableFormat(depth, alpha, yuvFormat) ==
    IF depth > 8
    THEN IF alpha THEN "16-bit RGBA"
         ELSE IF yuvFormat = "YUV400" THEN "16-bit grayscale" ELSE "16-bit RGB padded"
    ELSE IF alpha THEN "8-bit RGBA"
         ELSE IF yuvFormat = "YUV400" THEN "8-bit grayscale" ELSE "8-bit RGB"

\* C10: the frame decode_one_frame leaves in m_current_image has the host
\* format the table gives for the depth, alpha and YUV format of the frame it
\* was decoded from, whatever crop, rotation and mirror were applied.
C10_FrameFormat ==
    ~m_current_image.null =>
        HostFormat(m_current_image.format) =
            TableFormat(file.frames[m_current_image.frame + 1].depth,
                        file.frames[m_current_image.frame + 1].alphaPlane,
                        file.frames[m_current_image.frame + 1].yuvFormat)

\* a 12-bit monochrome frame, cropped, rotated and mirrored, as 16-bit grayscale
C10_Witness ==
    /\ ~m_current_image.null
    /\ m_current_image.format = "Format_Grayscale16"
    /\ file.frames[1].depth = 12
    /\ m_current_image.width = 1
    /\ m_current_image.height = 2
    /\ m_current_image.rotation = 270
    /\ m_current_image.mirrored = "horizontal"

-----------------------------------------------------------------------------
(* The colour space of a decoded frame, checked under Spec *)

\* the frame of the stream m_current_image was decoded from
CurrentFrame == file.frames[m_current_image.frame + 1]

\* the fixed lookup: the structured colour space for a pair of CICP codes
LookupPrimaries(code) ==
    IF code \in {0, 1, 2} THEN "SRgb"
    ELSE IF code = 12 THEN "DciP3D65"
    ELSE "Custom"

LookupTransfer(code) ==
    IF code = 4 THEN <<"Gamma", 220>>
    ELSE IF code = 5 THEN <<"Gamma", 280>>
    ELSE IF code = 8 THEN <<"Linear", 0>>
    ELSE <<"SRgb", 0>>

\* the colour space is the structured one the lookup gives for the codes of img
Structured(cs, img) ==
    /\ cs.valid
    /\ cs.profile = "built"
    /\ cs.primaries = LookupPrimaries(img.colorPrimaries)
    /\ cs.primaries = "Custom" => cs.points = img.colorPrimaries
    /\ cs.transferFunction = LookupTransfer(img.transferCharacteristics)[1]
    /\ cs.gamma = LookupTransfer(img.transferCharacteristics)[2]

\* C11 as stated: the colour space of a decoded frame is the embedded profile
\* when there is one and the parser accepts it; in every other case, a rejected
\* profile included, it is the structured colour space of the CICP codes.
C11_AsStated ==
    ~m_current_image.null =>
        IF CurrentFrame.icc = "valid"
        THEN m_current_image.colorSpace.valid
             /\ m_current_image.colorSpace.profile = "embedded"
        ELSE Structured(m_current_image.colorSpace, CurrentFrame)

\* C11 as amended: when a profile is embedded the colour space of the frame is
\* what the parser made of it, valid when it accepted the profile and invalid
\* when it rejected it; only when no profile is embedded is it the structured
\* colour space of the CICP codes, with sRGB for a transfer code not known.
C11_FrameColorSpace ==
    ~m_current_image.null =>
        IF CurrentFrame.icc # "none"
        THEN /\ m_current_image.colorSpace.profile = "embedded"
             /\ m_current_image.colorSpace.valid = (CurrentFrame.icc = "valid")
        ELSE Structured(m_current_image.colorSpace, CurrentFrame)

\* a frame without profile, of BT.2020 primaries and PQ transfer, decoded with
\* custom primaries and the sRGB transfer function
C11_Witness ==
    /\ ~m_current_image.null
    /\ CurrentFrame.icc = "none"
    /\ CurrentFrame.colorPrimaries = 9
    /\ CurrentFrame.transferCharacteristics = 16
    /\ m_current_image.colorSpace.primaries = "Custom"
    /\ m_current_image.colorSpace.transferFunction = "SRgb"

-----------------------------------------------------------------------------
(* The colour space of a written image, checked under SpecWrite *)

\* a valid colour space of which write knows neither the primaries nor the
\* transfer function
Unclassifiable(cs) ==
    /\ cs.valid
    /\ cs.primaries \notin {"SRgb", "DciP3D65"}
    /\ cs.transferFunction \notin {"Linear", "SRgb"}
    /\ cs.transferFunction = "Gamma" =>
           ~(cs.gamma \in 211..229 \/ cs.gamma \in 271..289)

\* depth 10, pixels converted to sRGB, and neither code left unspecified
SavedAsSRgb(w) ==
    /\ w.save_depth = 10
    /\ w.converted = "SRgb primaries, SRgb"
    /\ w.colorPrimaries # 2
    /\ w.transferCharacteristics # 2

\* C12 as stated: every accepted image, colour or grayscale, whose valid colour
\* space has neither primaries nor transfer function classifiable is saved
\* with depth 10, converted to sRGB, and with primaries and transfer codes
\* other than unspecified (2).
C12_AsStated ==
    (/\ encoded.op = "write"
     /\ Accepted(encoded.image)
     /\ Unclassifiable(encoded.image.colorSpace))
    => SavedAsSRgb(encoded)

\* C12 as amended: such an image, when it is saved in colour, is saved with
\* depth 10, converted to sRGB and tagged with primaries 1 and transfer 13; a
\* grayscale image without alpha channel keeps the depth of its format, is not
\* converted and is tagged with primaries 1 and the unspecified transfer code.
C12_UnclassifiedToSRgb ==
    (/\ encoded.op = "write"
     /\ Accepted(encoded.image)
     /\ Unclassifiable(encoded.image.colorSpace))
    => IF GrayOpaque(encoded.image)
       THEN /\ encoded.save_depth = (IF encoded.image.format = "Format_Grayscale16"
                                     THEN 10 ELSE 8)
            /\ encoded.converted = "no"
            /\ encoded.colorPrimaries = 1
            /\ encoded.transferCharacteristics = 2
       ELSE /\ SavedAsSRgb(encoded)
            /\ encoded.colorPrimaries = 1
            /\ encoded.transferCharacteristics = 13
            /\ encoded.tmpformat \in {"Format_RGBA64", "Format_RGBX64"}

\* an 8-bit RGB image of custom primaries and gamma 1.8, written upgraded
C12_Witness ==
    /\ encoded.op = "write"
    /\ encoded.ret
    /\ encoded.image.format = "Format_RGB32"
    /\ encoded.image.colorSpace.valid
    /\ encoded.image.colorSpace.primaries = "Custom"
    /\ encoded.image.colorSpace.gamma = 180
    /\ encoded.save_depth = 10
    /\ encoded.tmpformat = "Format_RGBX64"

-----------------------------------------------------------------------------
(* What write returns, checked under SpecWrite *)

\* write made that call of libavif or of the device
Called(w, what) == \E i \in DOMAIN w.log : w.log[i] = what

\* avifImageRGBToYUV was called and failed
ConversionFailed(w) == Called(w, "avifImageRGBToYUV") /\ ~w.answer.convert

\* avifEncoderWrite was called and failed
EncoderFailed(w) == Called(w, "avifEncoderWrite") /\ ~w.answer.encode

\* C13: write returns true exactly when the conversion (where there is one) and
\* the encoder succeeded and device()->write returned a positive number; when
\* the conversion or the encoder fails it returns false and device()->write is
\* not called; when device()->write returns -1, or 0, it returns false.
C13_WriteResult ==
    encoded.op = "write" =>
        /\ encoded.ret <=> /\ Called(encoded, "avifEncoderWrite")
                           /\ ~ConversionFailed(encoded)
                           /\ ~EncoderFailed(encoded)
                           /\ Called(encoded, "write")
                           /\ encoded.answer.status > 0
        /\ (ConversionFailed(encoded) \/ EncoderFailed(encoded)) =>
               ~encoded.ret /\ ~Called(encoded, "write")
        /\ (Called(encoded, "write") /\ encoded.answer.status <= 0) => ~encoded.ret
        /\ Called(encoded, "write") =>
               Called(encoded, "avifEncoderWrite") /\ encoded.answer.encode

\* a colour image converted and encoded, and refused by the device
C13_Witness ==
    /\ encoded.op = "write"
    /\ Called(encoded, "avifImageRGBToYUV")
    /\ Called(encoded, "write")
    /\ encoded.answer.status = -1
    /\ ~encoded.ret

-----------------------------------------------------------------------------
(* The release of the codec's resources *)

RECURSIVE Number(_, _)

\* how often write made that call
Number(log, what) ==
    IF log = <<>> THEN 0
    ELSE (IF Head(log) = what THEN 1 ELSE 0) + Number(Tail(log), what)

\* every decoder created was destroyed once, but the one m_decoder holds; the
\* destructor leaves none
DecoderReleased ==
    /\ decoders.created = decoders.destroyed + (IF m_decoder.live THEN 1 ELSE 0)
    /\ call.op = "~QAVIFHandler" => ~m_decoder.live

\* every avifImage and encoder write created was destroyed when it returned
WriteReleased ==
    encoded.op = "write" =>
        /\ Number(encoded.log, "avifImageDestroy") = Number(encoded.log, "avifImageCreate")
        /\ Number(encoded.log, "avifEncoderDestroy") = Number(encoded.log, "avifEncoderCreate")

\* C14: every codec resource is released on every exit: a decoder created by
\* ensureDecoder is destroyed exactly once, on the failing path or by the
\* destructor, and the avifImage and the encoder created by write are destroyed
\* before write returns on every path, the one where avifImageRGBToYUV fails
\* included.
C14_Released == DecoderReleased /\ WriteReleased

-----------------------------------------------------------------------------
(* The round trip of a grayscale image, checked under SpecRoundTrip *)

\* an 8-bit grayscale image without alpha channel
Gray8Opaque(image) ==
    /\ \/ image.format \in {"Format_Grayscale8", "Format_Mono", "Format_MonoLSB"}
       \/ image.format = "Format_Indexed8" /\ image.isGrayscale
    /\ ~image.hasAlphaChannel

\* the image is 8-bit grayscale and of the size of the image written
GrayOfSameSize(img) ==
    /\ img.format = "Format_Grayscale8"
    /\ img.width = encoded.image.width
    /\ img.height = encoded.image.height

\* C15: for an accepted 8-bit grayscale image without alpha channel the plan of
\* write is monochrome (YUV400), of depth 8 and of the width and height of the
\* image; and when the stream written is read back, the read succeeds and the
\* frame is Format_Grayscale8 of the same width and height, never an RGB format.
C15_GrayRoundTrip ==
    (encoded.op = "write" /\ Accepted(encoded.image) /\ Gray8Opaque(encoded.image)) =>
        /\ encoded.pixel_format = "YUV400"
        /\ encoded.save_depth = 8
        /\ encoded.width = encoded.image.width
        /\ encoded.height = encoded.image.height
        /\ call.op = "read" => call.ret /\ GrayOfSameSize(call.image)
        /\ ~m_current_image.null => GrayOfSameSize(m_current_image)

\* an indexed image of an achromatic palette, read back as 8-bit grayscale
C15_Witness ==
    /\ encoded.image.format = "Format_Indexed8"
    /\ encoded.image.isGrayscale
    /\ ~encoded.image.hasAlphaChannel
    /\ call.op = "read"
    /\ call.ret
    /\ call.image.format = "Format_Grayscale8"
    /\ call.image.width = 5
    /\ call.image.height = 3

-----------------------------------------------------------------------------
(* Sequential reads, checked under Spec *)

\* a single image the handler accepts and decodes
SoundStill ==
    /\ file.header = "ok"
    /\ Len(file.frames) = 1
    /\ file.frames[1].status = "ok"
    /\ file.frames[1].width \in 1..32768
    /\ file.frames[1].height \in 1..32768

\* C16: on an animation of N >= 2 decodable frames the first read of a handler
\* returns frame 0 and a read that follows a read returns the frame after the
\* one that read returned, frame 0 after the last: the k-th read of a fresh
\* handler returns frame (k-1) mod N.  A read that follows a successful
\* jumpToImage(n) or jumpToNextImage returns the frame jumped to and leaves the
\* decoder there.  On a single image every read returns frame 0.
C16_ReadsInOrder ==
    [][(call'.op = "read" /\ (SoundAnimation \/ SoundStill)) =>
          /\ call'.ret
          /\ ~call'.image.null
          /\ m_must_jump_to_next_image' = (Len(file.frames) >= 2)
          /\ m_parseState = "NotParsed" => call'.image.frame = 0
          /\ call.op = "read" =>
                 call'.image.frame = (call.image.frame + 1) % Len(file.frames)
          /\ (call.op \in {"jumpToImage", "jumpToNextImage"} /\ call.ret) =>
                 /\ call'.image.frame = m_decoder.imageIndex
                 /\ m_decoder'.imageIndex = m_decoder.imageIndex
                 /\ call'.advance = "none"
          /\ (call.op = "jumpToImage" /\ call.ret) => call'.image.frame = call.arg
          /\ SoundStill => call'.image.frame = 0]_vars

\* a read, after a read of the last frame, that went back to frame 0
C16_Witness ==
    /\ SoundAnimation
    /\ call.op = "read"
    /\ call.ret
    /\ call.image.frame = 0
    /\ call.advance = "done"
    /\ call.log[1] = "avifDecoderReset"

-----------------------------------------------------------------------------
(* The result of read, checked under Spec *)

\* C17: a read that returns true leaves m_parseState Success; a read whose
\* advance to the next frame failed returns false and does not hand the frame
\* it had to the caller.
C17_ReadTrueInSuccess ==
    call.op = "read" =>
        /\ call.ret => m_parseState = "Success"
        /\ call.advance = "failed" => ~call.ret /\ call.image.null

-----------------------------------------------------------------------------
(* The handler in the state Success, checked under Spec *)

\* C18: between the calls of a handler not yet destroyed, when m_parseState is
\* Success the decoder is live, m_container_width and m_container_height are in
\* 1..32768 and m_current_image holds a frame; and no call dereferences a null
\* m_decoder: imageCount, jumpToNextImage, jumpToImage, nextImageDelay and
\* loopCount made in the state Success find it live.
C18_SuccessIsSound ==
    /\ (m_parseState = "Success" /\ call.op # "~QAVIFHandler") =>
           /\ m_decoder.live
           /\ m_container_width \in 1..32768
           /\ m_container_height \in 1..32768
           /\ ~m_current_image.null
    /\ call.deref # "null"
    /\ (/\ call.op \in {"imageCount", "jumpToNextImage", "jumpToImage",
                         "nextImageDelay", "loopCount"}
        /\ call.pre = "Success") => call.deref = "live"

\* nextImageDelay on an animation whose frame has no duration
C18_Witness ==
    /\ call.op = "nextImageDelay"
    /\ call.pre = "Success"
    /\ m_parseState = "Success"
    /\ call.deref = "live"
    /\ call.value = 1
    /\ m_decoder.imageCount = 2

====
